---- MODULE Spec2Model ----
(***************************************************************************)
(* Message-processing core of the JT/T 808 gateway:                        *)
(* internal/protocol/msg_processor.go (dispatcher and handlers) over the   *)
(* device cache, the keep-alive timer and the GIS cache.                   *)
(*                                                                         *)
(* Strings are sequences of byte values, so that genAuthCode really        *)
(* concatenates and hashes them.                                           *)
(***************************************************************************)
EXTENDS Integers, Sequences, FiniteSets, TLC

\* ------------------------------------------------------------ record fields

\* The field names of the model's records, each with its rank. Every record below
\* lists its fields by increasing rank. TLC orders the fields of a record value by
\* the first occurrence of their names in the module, which is this one, so every
\* record expression builds its value with the fields already in TLC's order.
RecordFields ==
  [ op |-> 1, pc |-> 2, n |-> 3, ctx |-> 4, pkt |-> 5, in |-> 6, st |-> 7, have |-> 8,
    steps |-> 9, origM |-> 10, origFrame |-> 11, err |-> 12, device |-> 13, m |-> 14,
    frame |-> 15, manuLen |-> 16, modeLen |-> 17, idLen |-> 18, hasData |-> 19,
    out |-> 20, genData |-> 21, process |-> 22, byPhone |-> 23, byPlate |-> 24,
    timer |-> 25, rings |-> 26, MsgID |-> 27, Header |-> 28, VersionDesc |-> 29,
    VersionFlag |-> 30, BodyLength |-> 31, Body |-> 32, ProvinceID |-> 33, CityID |-> 34,
    ManufacturerID |-> 35, DeviceMode |-> 36, ID |-> 37, DeviceID |-> 38,
    PlateColor |-> 39, PlateNumber |-> 40, PhoneNumber |-> 41, SessionID |-> 42,
    TransProto |-> 43, Conn |-> 44, Keepalive |-> 45, Status |-> 46, Type |-> 47,
    Result |-> 48, AuthCode |-> 49, ACCStatus |-> 50, StatusSign |-> 51 ]

\* ------------------------------------------------------------------ bounds

\* Capacity of one GIS ring.
RingCap == 1

\* Packets one connection hands to the dispatcher while handlers interleave.
MaxFrames == 2

\* ------------------------------------------------------------- input sets

Phones == {<<49>>, <<50>>}              \* "1", "2"
Plates == {<<65>>, <<66>>}              \* "A", "B"
DeviceIDs == {<<68>>, <<69>>}           \* "D", "E"

\* model.Session: one per connection.
Sessions ==
  { [ID |-> "s1", TransProto |-> "tcp", Conn |-> "c1"],
    [ID |-> "s2", TransProto |-> "udp", Conn |-> "c2"] }

\* 32-bit status words of a 0x0200 body; bit 0 is ACC.
StatusSigns == {0, 1}

\* ------------------------------------------------------------ message ids

MsgID0001 == 1
MsgID0002 == 2
MsgID0003 == 3
MsgID0100 == 256
MsgID0102 == 258
MsgID0200 == 512
MsgID8001 == 32769
MsgID8100 == 33024
\* An id the dispatch table has no descriptor for (0x0700).
MsgID0700 == 1792

\* Seconds of time.Minute * 1.
KeepaliveSeconds == 60

\* --------------------------------------------------------------- hash.FNV32

\* A uint32 is a pair <<high 16 bits, low 16 bits>>.
RECURSIVE Xor(_, _)
Xor(a, b) ==
  IF a = 0 THEN b
  ELSE IF b = 0 THEN a
  ELSE (((a % 2) + (b % 2)) % 2) + 2 * Xor(a \div 2, b \div 2)

\* h * 16777619 mod 2^32 (16777619 = 256 * 2^16 + 403).
MulPrime32(h) ==
  LET lo == h[2] * 403
      hi == (h[1] * 403) + (h[2] * 256) + (lo \div 65536)
  IN  <<hi % 65536, lo % 65536>>

RECURSIVE FNV32From(_, _, _)
FNV32From(h, key, i) ==
  IF i > Len(key) THEN h
  ELSE LET m == MulPrime32(h)
       IN  FNV32From(<<m[1], Xor(m[2], key[i])>>, key, i + 1)

\* offset basis 2166136261 = 0x811C9DC5
FNV32(key) == FNV32From(<<33052, 40389>>, key, 1)

\* strconv.Itoa(int(u)) of a uint32: its decimal digits, as ASCII bytes.
RECURSIVE Itoa32(_)
Itoa32(u) ==
  LET qh  == u[1] \div 10
      mid == ((u[1] % 10) * 65536) + u[2]
      ql  == mid \div 10
      d   == mid % 10
  IN  IF qh = 0 /\ ql = 0 THEN <<48 + d>>
      ELSE Append(Itoa32(<<qh, ql>>), 48 + d)

\* The code of genAuthCode for (device id, plate, phone): id "_" plate "_" phone,
\* hashed and printed in decimal.
AuthCodeOf(id, plate, phone) ==
  Itoa32(FNV32(id \o <<95>> \o plate \o <<95>> \o phone))

\* The codes of every identity of the model, computed once.
AuthCodeTable ==
  [k \in DeviceIDs \X Plates \X Phones |-> AuthCodeOf(k[1], k[2], k[3])]

\* A mutant of genAuthCode: the code also depends on the device's status.
genAuthCode_WithStatus(d) ==
  IF d.Status = "offline" THEN AuthCodeTable[<<d.ID, d.PlateNumber, d.PhoneNumber>>]
  ELSE AuthCodeTable[<<d.ID, d.PlateNumber, d.PhoneNumber>>] \o <<49>>

genAuthCode(d) == AuthCodeTable[<<d.ID, d.PlateNumber, d.PhoneNumber>>]

\* ------------------------------------------------------------------ state

VARIABLES
  cacheByPhone,   \* storage.DeviceCache: phone -> model.Device
  cacheByPlate,   \* storage.DeviceCache: plate -> phone
  keepalive,      \* KeepaliveTimer: phone -> "armed" | "elapsed" (deadline passed)
  gisCache,       \* storage.GisCache: ring key -> ring of fixes, oldest first
  last,           \* the Process call that has just returned (packet, context, result), or Idle
  \* History of the phone's current registry entry, cleared when the entry is removed:
  authSinceReg,   \* a 0x0102 succeeded after the latest successful 0x0100
  statusSetBy,    \* msg id of the last packet that set a status: a successful 0x0100
                  \* or 0x0102, or a 0x0200 with ACC off (0: none)
  issuedCode,     \* the auth code of the 0x8100 reply to the successful 0x0100
  tasks,          \* per connection: the handler it is running and where it stands
  codec           \* a Msg0100 on its way through Encode and Decode (see the codec)

vars == <<cacheByPhone, cacheByPlate, keepalive, gisCache, last,
          authSinceReg, statusSetBy, issuedCode, tasks, codec>>
hists == <<authSinceReg, statusSetBy, issuedCode>>

\* A Go map as a function: m[k] = v, and delete(m, k).
Put(m, k, v) == [x \in (DOMAIN m) \cup {k} |-> IF x = k THEN v ELSE m[x]]
Del(m, k) == [x \in (DOMAIN m) \ {k} |-> m[x]]
EmptyMap == [x \in {} |-> 0]

\* The shared services as one value: what a handler reads and what it leaves.
Store == [byPhone |-> cacheByPhone, byPlate |-> cacheByPlate,
          timer |-> keepalive, rings |-> gisCache]

\* ----------------------------------------------------- storage.DeviceCache

HasPlate(st, plate) == plate \in DOMAIN st.byPlate
HasPhone(st, phone) == phone \in DOMAIN st.byPhone

\* GetDeviceByPhone: a snapshot of the device; ErrDeviceNotFound when absent.
GetDeviceByPhone(st, phone) ==
  IF HasPhone(st, phone)
  THEN [err |-> <<>>, device |-> st.byPhone[phone]]
  ELSE [err |-> <<"ErrDeviceNotFound">>, device |-> "nil"]

\* KeepaliveTimer: register, refresh and cancel of a phone's deadline.
\* An entry is "armed" until its deadline elapses without refresh.
TimerRegister(st, phone) == [st EXCEPT !.timer = Put(@, phone, "armed")]
TimerRefresh(st, phone) ==
  IF phone \in DOMAIN st.timer
  THEN [st EXCEPT !.timer = Put(@, phone, "armed")]
  ELSE st
TimerCancel(st, phone) == [st EXCEPT !.timer = Del(@, phone)]

\* CacheDevice: put. Replaces the phone's record, points the plate at the phone and
\* refreshes the keep-alive deadline of a device that already has one.
CacheDevice(st, d) ==
  TimerRefresh([st EXCEPT !.byPhone = Put(@, d.PhoneNumber, d),
                          !.byPlate = Put(@, d.PlateNumber, d.PhoneNumber)],
               d.PhoneNumber)

\* DelDeviceByPhone: removes the device and its plate entry; absent is tolerated.
DelDeviceByPhone(st, phone) ==
  IF HasPhone(st, phone)
  THEN [st EXCEPT !.byPhone = Del(@, phone),
                  !.byPlate = Del(@, st.byPhone[phone].PlateNumber)]
  ELSE st

\* -------------------------------------------------------- storage.GisCache

\* model.GISMeta.Decode of the status word: ACC is bit 0.
GisDecode(statusSign) == [ACCStatus |-> statusSign % 2, StatusSign |-> statusSign]

\* GetGisRingByPhone(key) then rb.Write(fix): the ring is made on first use and
\* overwrites its oldest fix when full.
RingOf(st, key) == IF key \in DOMAIN st.rings THEN st.rings[key] ELSE <<>>
RingWrite(st, key, fix) ==
  LET r == Append(RingOf(st, key), fix)
  IN  [st EXCEPT !.rings = Put(@, key, IF Len(r) > RingCap THEN Tail(r) ELSE r)]

\* --------------------------------------------------------------- messages

\* A decoded packet: the header's msg id and phone number and the body fields the
\* handlers read (unused ones are empty).
Pkt(id, phone, devID, plate, code, sign) ==
  [MsgID |-> id, DeviceID |-> devID, PlateNumber |-> plate, PhoneNumber |-> phone,
   AuthCode |-> code, StatusSign |-> sign]

\* Auth codes a terminal may send for a phone: "0" and every code the server can
\* have issued for that phone.
AuthCodesFor ==
  [phone \in Phones |->
     {<<48>>} \cup { AuthCodeTable[<<id, pl, phone>>] : id \in DeviceIDs, pl \in Plates }]

\* The outgoing message of a ProcessData; Type "nil" is no reply.
NoOut == [Type |-> "nil", Result |-> "", AuthCode |-> <<>>]
\* GenOutgoing of Msg8001 / Msg8100 / Msg0102: the ack fields, result success.
GenOutgoing(type) ==
  CASE type = "Msg8001" -> [Type |-> type, Result |-> "ResultSuccess", AuthCode |-> <<>>]
    [] type = "Msg8100" -> [Type |-> type, Result |-> "ResSuccess", AuthCode |-> <<>>]
    [] OTHER -> [Type |-> type, Result |-> "", AuthCode |-> <<>>]

NoErr == <<>>
\* errors.Wrap(err, msg): the message in front of the chain, the cause last.
Wrap(err, msg) == <<msg>> \o err
Cause(err) == IF err = NoErr THEN "nil" ELSE err[Len(err)]

\* -------------------------------------------------------------- handlers
\* A handler takes the services, the session of the context and the ProcessData
\* (in, out), and returns the services as it leaves them, its error and out.

\* A mutant of processMsg0002: an absent device is tolerated.
processMsg0002_Tolerant(st, ctx, data) ==
  LET r == GetDeviceByPhone(st, data.in.PhoneNumber)
  IN  IF Cause(r.err) = "ErrDeviceNotFound"
      THEN [st |-> st, err |-> NoErr, out |-> data.out]
      ELSE [st |-> CacheDevice(st, r.device), err |-> NoErr, out |-> data.out]

\* A mutant of processMsg0002: the device is looked up and not put back.
processMsg0002_NoPut(st, ctx, data) ==
  LET r == GetDeviceByPhone(st, data.in.PhoneNumber)
  IN  IF Cause(r.err) = "ErrDeviceNotFound"
      THEN [st |-> st, err |-> Wrap(r.err, "Fail to find device cache"), out |-> data.out]
      ELSE [st |-> st, err |-> NoErr, out |-> data.out]

processMsg0002(st, ctx, data) ==
  LET r == GetDeviceByPhone(st, data.in.PhoneNumber)
  IN  IF Cause(r.err) = "ErrDeviceNotFound"
      THEN [st |-> st, err |-> Wrap(r.err, "Fail to find device cache"), out |-> data.out]
      ELSE [st |-> CacheDevice(st, r.device), err |-> NoErr, out |-> data.out]

\* A mutant of processMsg0003: the timer entry is cancelled and the device kept.
processMsg0003_CancelOnly(st, ctx, data) ==
  LET r == GetDeviceByPhone(st, data.in.PhoneNumber)
  IN  IF Cause(r.err) = "ErrDeviceNotFound"
      THEN [st |-> st, err |-> Wrap(r.err, "Fail to find device cache"), out |-> data.out]
      ELSE [st |-> TimerCancel(st, r.device.PhoneNumber), err |-> NoErr, out |-> data.out]

processMsg0003(st, ctx, data) ==
  LET r == GetDeviceByPhone(st, data.in.PhoneNumber)
  IN  IF Cause(r.err) = "ErrDeviceNotFound"
      THEN [st |-> st, err |-> Wrap(r.err, "Fail to find device cache"), out |-> data.out]
      ELSE [st |-> DelDeviceByPhone(TimerCancel(st, r.device.PhoneNumber),
                                    r.device.PhoneNumber),
            err |-> NoErr, out |-> data.out]

\* A mutant of NewDevice: the new device starts online.
NewDevice_Online(in, session) ==
  [ID |-> in.DeviceID, PlateNumber |-> in.PlateNumber, PhoneNumber |-> in.PhoneNumber,
   SessionID |-> session.ID, TransProto |-> session.TransProto, Conn |-> session.Conn,
   Keepalive |-> KeepaliveSeconds, Status |-> "online"]

\* The device a successful register creates.
NewDevice(in, session) ==
  [ID |-> in.DeviceID, PlateNumber |-> in.PlateNumber, PhoneNumber |-> in.PhoneNumber,
   SessionID |-> session.ID, TransProto |-> session.TransProto, Conn |-> session.Conn,
   Keepalive |-> KeepaliveSeconds, Status |-> "offline"]

\* Mutants of PlateRegistered: the plate check is missing; the phone is checked first.
PlateRegistered_Never(st, in) == FALSE
PlateRegistered_PhoneFirst(st, in) ==
  HasPlate(st, in.PlateNumber) /\ ~HasPhone(st, in.PhoneNumber)

\* A mutant of PhoneRegistered: the phone check is missing.
PhoneRegistered_Never(st, in) == FALSE

\* The two checks of a register, in the order the handler makes them.
PlateRegistered(st, in) == HasPlate(st, in.PlateNumber)
PhoneRegistered(st, in) == HasPhone(st, in.PhoneNumber)

\* A mutant of RegisterDevice: no keep-alive entry is registered.
RegisterDevice_NoTimer(st, device) == CacheDevice(st, device)

\* cache.CacheDevice(device), then timer.Register(device.PhoneNumber).
RegisterDevice(st, device) ==
  TimerRegister(CacheDevice(st, device), device.PhoneNumber)

processMsg0100(st, ctx, data) ==
  IF PlateRegistered(st, data.in)
  THEN [st |-> st, err |-> NoErr,
        out |-> [data.out EXCEPT !.Result = "ResCarAlreadyRegister"]]
  ELSE IF PhoneRegistered(st, data.in)
  THEN [st |-> st, err |-> NoErr,
        out |-> [data.out EXCEPT !.Result = "ResDeviceAlreadyRegister"]]
  ELSE LET device == NewDevice(data.in, ctx)
       IN  [st |-> RegisterDevice(st, device),
            err |-> NoErr,
            out |-> [data.out EXCEPT !.AuthCode = genAuthCode(device)]]

\* A mutant of AuthPassed: the wrong status constant.
AuthPassed_Sleeping(device) == [device EXCEPT !.Status = "sleeping"]

\* device.Status = model.DeviceStatusOnline
AuthPassed(device) == [device EXCEPT !.Status = "online"]

\* A mutant of RejectAuth: the device is deleted and its timer entry left behind.
RejectAuth_KeepTimer(st, device) == DelDeviceByPhone(st, device.PhoneNumber)

\* timer.Cancel(device.PhoneNumber), then cache.DelDeviceByPhone(device.PhoneNumber).
RejectAuth(st, device) ==
  DelDeviceByPhone(TimerCancel(st, device.PhoneNumber), device.PhoneNumber)

processMsg0102(st, ctx, data) ==
  LET r == GetDeviceByPhone(st, data.in.PhoneNumber)
  IN  IF Cause(r.err) = "ErrDeviceNotFound"
      THEN [st |-> st, err |-> Wrap(r.err, "Fail to find device cache"), out |-> data.out]
      ELSE IF data.in.AuthCode # genAuthCode(r.device)
      THEN [st |-> RejectAuth(st, r.device),
            err |-> NoErr,
            out |-> [data.out EXCEPT !.Result = "ResultFail"]]
      ELSE [st |-> CacheDevice(st, AuthPassed(r.device)),
            err |-> NoErr, out |-> data.out]

\* The key handleMsg0200 hands to GetGisRingByPhone.
GisRingKey(device) == device.ID

\* A mutant of ACCOff: the wrong status constant.
ACCOff_Online(device) == [device EXCEPT !.Status = "online"]

\* device.Status = model.DeviceStatusSleeping
ACCOff(device) == [device EXCEPT !.Status = "sleeping"]

\* A mutant of handleMsg0200: the device is put to sleep whatever the ACC bit says.
handleMsg0200_SleepAlways(st, ctx, data) ==
  LET r == GetDeviceByPhone(st, data.in.PhoneNumber)
  IN  IF Cause(r.err) = "ErrDeviceNotFound"
      THEN [st |-> st, err |-> Wrap(r.err, "Fail to find device cache"), out |-> data.out]
      ELSE LET gis == GisDecode(data.in.StatusSign)
               device == ACCOff(r.device)
           IN  [st |-> RingWrite(CacheDevice(st, device), GisRingKey(device), gis),
                err |-> NoErr, out |-> data.out]

handleMsg0200(st, ctx, data) ==
  LET r == GetDeviceByPhone(st, data.in.PhoneNumber)
  IN  IF Cause(r.err) = "ErrDeviceNotFound"
      THEN [st |-> st, err |-> Wrap(r.err, "Fail to find device cache"), out |-> data.out]
      ELSE LET gis == GisDecode(data.in.StatusSign)
               device == IF gis.ACCStatus = 0 THEN ACCOff(r.device) ELSE r.device
               st1 == IF gis.ACCStatus = 0 THEN CacheDevice(st, device) ELSE st
           IN  [st |-> RingWrite(st1, GisRingKey(device), gis),
                err |-> NoErr, out |-> data.out]

processMsg8100(st, ctx, data) ==
  LET r == GetDeviceByPhone(st, data.in.PhoneNumber)
  IN  IF Cause(r.err) = "ErrDeviceNotFound"
      THEN [st |-> st, err |-> <<"ErrActiveClose">>, out |-> data.out]
      ELSE [st |-> st, err |-> NoErr,
            out |-> [data.out EXCEPT !.AuthCode = genAuthCode(r.device)]]

\* ------------------------------------------------------------ dispatcher

\* initProcessOption: msg id -> (type of the outgoing message, handler).
initProcessOption ==
  (MsgID0001 :> [genData |-> "nil", process |-> "nil"]) @@
  (MsgID0002 :> [genData |-> "Msg8001", process |-> "processMsg0002"]) @@
  (MsgID0003 :> [genData |-> "Msg8001", process |-> "processMsg0003"]) @@
  (MsgID0100 :> [genData |-> "Msg8100", process |-> "processMsg0100"]) @@
  (MsgID0102 :> [genData |-> "Msg8001", process |-> "processMsg0102"]) @@
  (MsgID0200 :> [genData |-> "Msg8001", process |-> "handleMsg0200"]) @@
  (MsgID8001 :> [genData |-> "nil", process |-> "nil"]) @@
  (MsgID8100 :> [genData |-> "Msg0102", process |-> "processMsg8100"])

\* Whether mp.options[msgID] is a descriptor: for an absent key the map yields
\* the nil *action.
HasAction(msgID) == msgID \in DOMAIN initProcessOption

processFunc(name, st, ctx, data) ==
  CASE name = "processMsg0002" -> processMsg0002(st, ctx, data)
    [] name = "processMsg0003" -> processMsg0003(st, ctx, data)
    [] name = "processMsg0100" -> processMsg0100(st, ctx, data)
    [] name = "processMsg0102" -> processMsg0102(st, ctx, data)
    [] name = "handleMsg0200" -> handleMsg0200(st, ctx, data)
    [] name = "processMsg8100" -> processMsg8100(st, ctx, data)

\* What Process does with a nil *action: mp.options[msgID].genData reads a field
\* through the nil pointer, which panics before the nil check of line 113.
NilActionResult(st) ==
  [st |-> st, err |-> <<"panic: nil pointer dereference">>, hasData |-> FALSE,
   out |-> NoOut]

\* Process: (data, err) and the services as the call leaves them.
Process(st, ctx, pkt) ==
  IF ~HasAction(pkt.MsgID) THEN NilActionResult(st)
  ELSE LET opt == initProcessOption[pkt.MsgID]
       IN  IF opt.genData = "nil"
           THEN [st |-> st, err |-> NoErr, hasData |-> FALSE, out |-> NoOut]
           ELSE LET data == [in |-> pkt, out |-> GenOutgoing(opt.genData)]
                    r == processFunc(opt.process, st, ctx, data)
                IN  IF r.err # NoErr
                    THEN [st |-> r.st, err |-> Wrap(r.err, "Fail to process data"),
                          hasData |-> TRUE, out |-> r.out]
                    ELSE [st |-> r.st, err |-> NoErr, hasData |-> TRUE, out |-> r.out]

\* -------------------------------------------------------- model.Msg0100
\* A byte is 0..255. ManufacturerID, DeviceMode and DeviceID are the sequences of
\* their bytes; a plate number is the sequence of its characters' code points.

\* The frame codec: big-endian words, bytes, fixed-length strings. idx counts the
\* bytes already read.
ReadWord(pkt, idx) == (pkt[idx + 1] * 256) + pkt[idx + 2]
WriteWord(pkt, w) == pkt \o <<w \div 256, w % 256>>
ReadByte(pkt, idx) == pkt[idx + 1]
WriteByte(pkt, b) == Append(pkt, b)
ReadString(pkt, idx, n) == SubSeq(pkt, idx + 1, idx + n)

\* strings.TrimRight(str, "\x00")
RECURSIVE TrimRight(_)
TrimRight(str) ==
  IF str # <<>> /\ str[Len(str)] = 0
  THEN TrimRight(SubSeq(str, 1, Len(str) - 1))
  ELSE str

\* GBK: a byte below 0x80 is the character itself; the two bytes BE A9 are U+4EAC.
\* Bytes that are no character decode to U+FFFD, which encodes to "?".
GBKTable == [cp \in {20140} |-> <<190, 169>>]

RECURSIVE GBK2UTF8(_)
GBK2UTF8(bytes) ==
  IF bytes = <<>> THEN <<>>
  ELSE IF bytes[1] < 128 THEN <<bytes[1]>> \o GBK2UTF8(Tail(bytes))
  ELSE IF Len(bytes) >= 2 /\ \E cp \in DOMAIN GBKTable : GBKTable[cp] = SubSeq(bytes, 1, 2)
  THEN <<CHOOSE cp \in DOMAIN GBKTable : GBKTable[cp] = SubSeq(bytes, 1, 2)>>
         \o GBK2UTF8(Tail(Tail(bytes)))
  ELSE <<65533>> \o GBK2UTF8(Tail(bytes))

RECURSIVE UTF82GBK(_)
UTF82GBK(str) ==
  IF str = <<>> THEN <<>>
  ELSE IF str[1] < 128 THEN <<str[1]>> \o UTF82GBK(Tail(str))
  ELSE IF str[1] \in DOMAIN GBKTable THEN GBKTable[str[1]] \o UTF82GBK(Tail(str))
  ELSE <<63>> \o UTF82GBK(Tail(str))

ReadGBK(pkt, idx, n) == GBK2UTF8(SubSeq(pkt, idx + 1, idx + n))
WriteGBK(pkt, str) == pkt \o UTF82GBK(str)

\* The header as far as Msg0100 reads it: Attr.VersionDesc and Attr.BodyLength.
MsgHeader(ver, bodyLength) == [VersionDesc |-> ver, BodyLength |-> bodyLength]

NoMsg0100 ==
  [Header |-> MsgHeader("", 0), ProvinceID |-> 0, CityID |-> 0, ManufacturerID |-> <<>>,
   DeviceMode |-> <<>>, DeviceID |-> <<>>, PlateColor |-> 0, PlateNumber |-> <<>>]

\* ver = &[]VersionType{Version2011}[0]: the local pointer ver is pointed at a new
\* value; the header it pointed at keeps its version.
RebindVer(header) == header

\* The field reads of Decode, once the widths are chosen; m.Header is the packet's
\* header as Decode leaves it.
DecodeFields(packet, header, manuLen, modeLen, idLen) ==
  LET pkt == packet.Body
      idx == 4 + manuLen + modeLen + idLen
  IN  [err |-> "nil",
       m |-> [Header |-> header,
              ProvinceID |-> ReadWord(pkt, 0),
              CityID |-> ReadWord(pkt, 2),
              ManufacturerID |-> TrimRight(ReadString(pkt, 4, manuLen)),
              DeviceMode |-> TrimRight(ReadString(pkt, 4 + manuLen, modeLen)),
              DeviceID |-> TrimRight(ReadString(pkt, 4 + manuLen + modeLen, idLen)),
              PlateColor |-> ReadByte(pkt, idx),
              PlateNumber |-> ReadGBK(pkt, idx + 1, packet.Header.BodyLength - (idx + 1))],
       manuLen |-> manuLen, modeLen |-> modeLen, idLen |-> idLen]

\* Msg0100.Decode: the error, the message, and the widths it read with.
Msg0100Decode(packet) ==
  LET ver == packet.Header.VersionDesc
      idx == 4
  IN  IF ver = "Version2019"
      THEN DecodeFields(packet, packet.Header, 11, 30, 30)
      ELSE IF ver = "Version2013"
      THEN LET remainLen == packet.Header.BodyLength - idx
           IN  IF remainLen > 5 + 20 + 7 + 1
               THEN DecodeFields(packet, packet.Header, 5, 20, 7)
               ELSE DecodeFields(packet, RebindVer(packet.Header), 5, 8, 7)
      ELSE [err |-> "ErrDecodeMsg", m |-> NoMsg0100, manuLen |-> 0, modeLen |-> 0,
            idLen |-> 0]

\* A field with fill bytes appended up to n; a longer field is written whole.
Fill(field, n) ==
  field \o [i \in 1..(IF n > Len(field) THEN n - Len(field) ELSE 0) |-> 0]

\* writeHeader(m, pkt): the header goes in front of the body; on the wire it carries
\* the version flag (set for 2019 only) and the body's length.
WriteHeader(m, pkt) ==
  [err |-> "nil",
   frame |-> [VersionFlag |-> (m.Header.VersionDesc = "Version2019"),
              BodyLength |-> Len(pkt), Body |-> pkt]]

NoFrame == [VersionFlag |-> FALSE, BodyLength |-> 0, Body |-> <<>>]

\* The body Encode writes with the chosen widths, then the header.
EncodeFields(m, manuLen, modeLen, idLen) ==
  WriteHeader(m,
    WriteGBK(WriteByte(WriteWord(WriteWord(<<>>, m.ProvinceID), m.CityID)
                         \o Fill(m.ManufacturerID, manuLen)
                         \o Fill(m.DeviceMode, modeLen)
                         \o Fill(m.DeviceID, idLen),
                       m.PlateColor),
             m.PlateNumber))

\* Msg0100.Encode
Msg0100Encode(m) ==
  LET msgVer == m.Header.VersionDesc
  IN  IF msgVer = "Version2019" THEN EncodeFields(m, 11, 30, 30)
      ELSE IF msgVer = "Version2013" THEN EncodeFields(m, 5, 20, 7)
      ELSE IF msgVer = "Version2011" THEN EncodeFields(m, 5, 8, 7)
      ELSE [err |-> "ErrEncodeHeader", frame |-> NoFrame]

\* The header codec on a received frame: the version flag says 2019, and a frame
\* without it is taken for 2013 (Msg0100.Decode is where 2011 is told apart).
ReadHeader(frame) ==
  [Header |-> MsgHeader(IF frame.VersionFlag THEN "Version2019" ELSE "Version2013",
                        frame.BodyLength),
   Body |-> frame.Body]

\* The widths of (manufacturer, model, device id) of each revision.
Widths(ver) ==
  CASE ver = "Version2019" -> [manuLen |-> 11, modeLen |-> 30, idLen |-> 30]
    [] ver = "Version2013" -> [manuLen |-> 5, modeLen |-> 20, idLen |-> 7]
    [] ver = "Version2011" -> [manuLen |-> 5, modeLen |-> 8, idLen |-> 7]

\* The messages and frames the codec is tried on.
CodecVersions == {"Version2011", "Version2013", "Version2019"}
CodecManufacturers == {<<65>>, <<65, 66, 67, 68, 69>>}                  \* "A", "ABCDE"
CodecModes ==
  { <<77>>,                                                               \* "M"
    <<77, 79, 68, 69, 76, 45, 49, 49>>,                                   \* "MODEL-11"
    <<77, 79, 68, 69, 76, 45, 50, 48, 49, 51, 45, 86, 69, 82, 45, 65, 45, 48, 48, 49>> }
CodecDeviceIDs == {<<68>>, <<68, 69, 86, 48, 48, 48, 49>>}              \* "D", "DEV0001"
CodecPlates ==
  { <<>>,
    <<20140, 65, 49, 50, 51, 52, 53>>,                                    \* U+4EAC "A12345"
    <<84, 69, 77, 80, 45, 80, 76, 65, 84, 69, 45, 48, 49>> }              \* 13 bytes
CodecFields ==
  [ManufacturerID : CodecManufacturers, DeviceMode : CodecModes,
   DeviceID : CodecDeviceIDs, PlateNumber : CodecPlates]

\* Fields that fit the widths of the revision.
WellFormed(ver, f) ==
  /\ Len(f.ManufacturerID) <= Widths(ver).manuLen
  /\ Len(f.DeviceMode) <= Widths(ver).modeLen
  /\ Len(f.DeviceID) <= Widths(ver).idLen

\* The canonical body of a revision: words, NUL-padded fixed fields, colour, plate.
CanonicalBody(ver, f) ==
  <<0, 44, 1, 1>> \o Fill(f.ManufacturerID, Widths(ver).manuLen)
                  \o Fill(f.DeviceMode, Widths(ver).modeLen)
                  \o Fill(f.DeviceID, Widths(ver).idLen)
                  \o <<1>> \o UTF82GBK(f.PlateNumber)

\* A message of a revision, its header's body length that of its canonical body.
Msg0100Of(ver, f) ==
  [Header |-> MsgHeader(ver, Len(CanonicalBody(ver, f))),
   ProvinceID |-> 44, CityID |-> 257, ManufacturerID |-> f.ManufacturerID,
   DeviceMode |-> f.DeviceMode, DeviceID |-> f.DeviceID, PlateColor |-> 1,
   PlateNumber |-> f.PlateNumber]

\* The well-formed messages, and the canonical frames of well-formed fields.
CodecInputs ==
  { <<ver, f>> \in CodecVersions \X CodecFields : WellFormed(ver, f) }

CanonicalFrame(ver, f) ==
  [VersionFlag |-> (ver = "Version2019"), BodyLength |-> Len(CanonicalBody(ver, f)),
   Body |-> CanonicalBody(ver, f)]

\* A Msg0100 between Encode and Decode: what the next call takes ("m", "frame" or
\* "none"), the calls made, the input, the latest message, frame, error and widths.
CodecState(have, steps, origM, origFrame, m, frame, err, widths) ==
  [have |-> have, steps |-> steps, origM |-> origM, origFrame |-> origFrame, err |-> err,
   m |-> m, frame |-> frame, manuLen |-> widths.manuLen, modeLen |-> widths.modeLen,
   idLen |-> widths.idLen]

NoWidths == [manuLen |-> 0, modeLen |-> 0, idLen |-> 0]
NoCodec == CodecState("none", <<>>, NoMsg0100, NoFrame, NoMsg0100, NoFrame, "nil", NoWidths)

\* ---------------------------------------------------------------- actions

NoSession == [ID |-> "", TransProto |-> "", Conn |-> ""]
NoPkt == Pkt(0, <<>>, <<>>, <<>>, <<>>, 0)
Idle == [op |-> "idle", ctx |-> NoSession, pkt |-> NoPkt, err |-> NoErr,
         hasData |-> FALSE, out |-> NoOut]

\* A connection task that is between two packets.
IdleTask ==
  [pc |-> "idle", n |-> 0, pkt |-> NoPkt, err |-> NoErr, device |-> "nil", out |-> NoOut]

\* Whether a returned call is a handler's success: no error and a success result.
Succeeded(r) ==
  /\ r.err = NoErr
  /\ r.out.Result \in {"ResultSuccess", "ResSuccess"}

\* Whether a step that leaves the services as st removes the phone's device.
Removes(st, phone) == phone \in DOMAIN cacheByPhone /\ phone \notin DOMAIN st.byPhone

\* A connection task hands one decoded packet to Process, which runs to its end.
Dispatch(ctx, pkt) ==
  /\ last = Idle
  /\ UNCHANGED <<tasks, codec>>
  /\ \E r \in {Process(Store, ctx, pkt)} :
      /\ cacheByPhone' = r.st.byPhone
      /\ cacheByPlate' = r.st.byPlate
      /\ keepalive' = r.st.timer
      /\ gisCache' = r.st.rings
      /\ last' = [op |-> "Process", ctx |-> ctx, pkt |-> pkt, err |-> r.err,
                  hasData |-> r.hasData, out |-> r.out]
      /\ authSinceReg' =
           [authSinceReg EXCEPT ![pkt.PhoneNumber] =
              IF Removes(r.st, pkt.PhoneNumber) THEN FALSE
              ELSE IF pkt.MsgID = MsgID0100 /\ Succeeded(r) THEN FALSE
              ELSE IF pkt.MsgID = MsgID0102 /\ Succeeded(r) THEN TRUE
              ELSE @]
      /\ statusSetBy' =
           [statusSetBy EXCEPT ![pkt.PhoneNumber] =
              IF Removes(r.st, pkt.PhoneNumber) THEN 0
              ELSE IF pkt.MsgID \in {MsgID0100, MsgID0102} /\ Succeeded(r) THEN pkt.MsgID
              ELSE IF pkt.MsgID = MsgID0200 /\ Succeeded(r) /\ pkt.StatusSign % 2 = 0
              THEN pkt.MsgID
              ELSE @]
      /\ issuedCode' =
           [issuedCode EXCEPT ![pkt.PhoneNumber] =
              IF Removes(r.st, pkt.PhoneNumber) THEN <<>>
              ELSE IF pkt.MsgID = MsgID0100 /\ Succeeded(r) THEN r.out.AuthCode
              ELSE @]

\* The sessions a packet is tried on: processMsg0100 is the only handler that reads
\* the session of its context, so the other packets are tried on one session.
SessionsFor(msgID) ==
  IF msgID = MsgID0100 THEN Sessions ELSE {s \in Sessions : s.ID = "s1"}

Recv0001 ==
  \E ctx \in SessionsFor(MsgID0001), p \in Phones :
    Dispatch(ctx, Pkt(MsgID0001, p, <<>>, <<>>, <<>>, 0))

Recv0002 ==
  \E ctx \in SessionsFor(MsgID0002), p \in Phones :
    Dispatch(ctx, Pkt(MsgID0002, p, <<>>, <<>>, <<>>, 0))

Recv0003 ==
  \E ctx \in SessionsFor(MsgID0003), p \in Phones :
    Dispatch(ctx, Pkt(MsgID0003, p, <<>>, <<>>, <<>>, 0))

Recv0100 ==
  \E ctx \in SessionsFor(MsgID0100), p \in Phones, id \in DeviceIDs, pl \in Plates :
    Dispatch(ctx, Pkt(MsgID0100, p, id, pl, <<>>, 0))

Recv0102 ==
  \E ctx \in SessionsFor(MsgID0102), p \in Phones :
    \E code \in AuthCodesFor[p] :
      Dispatch(ctx, Pkt(MsgID0102, p, <<>>, <<>>, code, 0))

Recv0200 ==
  \E ctx \in SessionsFor(MsgID0200), p \in Phones, sign \in StatusSigns :
    Dispatch(ctx, Pkt(MsgID0200, p, <<>>, <<>>, <<>>, sign))

Recv8001 ==
  \E ctx \in SessionsFor(MsgID8001), p \in Phones :
    Dispatch(ctx, Pkt(MsgID8001, p, <<>>, <<>>, <<>>, 0))

Recv8100 ==
  \E ctx \in SessionsFor(MsgID8100), p \in Phones :
    Dispatch(ctx, Pkt(MsgID8100, p, <<>>, <<>>, <<>>, 0))

RecvUnsupported ==
  \E ctx \in SessionsFor(MsgID0700), p \in Phones :
    Dispatch(ctx, Pkt(MsgID0700, p, <<>>, <<>>, <<>>, 0))

\* The caller takes (data, err) from Process, sends the reply if there is one, and
\* reads the next frame.
Return ==
  /\ last.op = "Process"
  /\ last' = Idle
  /\ UNCHANGED <<cacheByPhone, cacheByPlate, keepalive, gisCache, hists, tasks, codec>>

\* A phone's keep-alive deadline passes without a refresh.
ElapseOf(p) ==
  /\ p \in DOMAIN keepalive
  /\ last = Idle
  /\ keepalive[p] = "armed"
  /\ keepalive' = [keepalive EXCEPT ![p] = "elapsed"]
  /\ UNCHANGED <<cacheByPhone, cacheByPlate, gisCache, last, hists, tasks, codec>>

Elapse == \E p \in Phones : ElapseOf(p)

\* The keep-alive timer fires for a phone whose deadline elapsed: the entry is
\* dropped and the device removed.
KeepaliveTimeout(st, phone) == DelDeviceByPhone(TimerCancel(st, phone), phone)

TimeoutOf(p) ==
  /\ p \in DOMAIN keepalive
  /\ last = Idle
  /\ keepalive[p] = "elapsed"
  /\ \E st \in {KeepaliveTimeout(Store, p)} :
       /\ cacheByPhone' = st.byPhone
       /\ cacheByPlate' = st.byPlate
       /\ keepalive' = st.timer
       /\ gisCache' = st.rings
       /\ authSinceReg' = IF Removes(st, p) THEN [authSinceReg EXCEPT ![p] = FALSE]
                          ELSE authSinceReg
       /\ statusSetBy' = IF Removes(st, p) THEN [statusSetBy EXCEPT ![p] = 0]
                         ELSE statusSetBy
       /\ issuedCode' = IF Removes(st, p) THEN [issuedCode EXCEPT ![p] = <<>>]
                        ELSE issuedCode
  /\ UNCHANGED <<last, tasks, codec>>

Timeout == \E p \in Phones : TimeoutOf(p)

Init ==
  /\ cacheByPhone = EmptyMap
  /\ cacheByPlate = EmptyMap
  /\ keepalive = EmptyMap
  /\ gisCache = EmptyMap
  /\ last = Idle
  /\ authSinceReg = [p \in Phones |-> FALSE]
  /\ statusSetBy = [p \in Phones |-> 0]
  /\ issuedCode = [p \in Phones |-> <<>>]
  /\ tasks = [s \in Sessions |-> IdleTask]
  /\ codec = NoCodec

Next ==
  \/ Recv0001
  \/ Recv0002
  \/ Recv0003
  \/ Recv0100
  \/ Recv0102
  \/ Recv0200
  \/ Recv8001
  \/ Recv8100
  \/ RecvUnsupported
  \/ Return
  \/ Elapse
  \/ Timeout

Spec == Init /\ [][Next]_vars

\* The same steps with the scheduling the program has: a connection task that has a
\* result from Process goes on to its next frame, and the keep-alive timer runs on
\* its own, so a deadline that keeps being due elapses and fires however many
\* packets are processed meanwhile.
SpecLive ==
  /\ Init
  /\ [][Next]_vars
  /\ WF_vars(Return)
  /\ \A p \in Phones : SF_vars(ElapseOf(p)) /\ SF_vars(TimeoutOf(p))

\* ------------------------------------------------- interleaved handlers
\* Each connection has its own task, which runs one handler at a time; the handlers
\* of different connections interleave between their calls on the shared services
\* (each call on the device cache, the timer or a ring is atomic).

\* The packets the interleaved tasks are given: the five terminal messages for
\* every phone and plate, with one device id and with the auth codes "0" and those
\* of that device id.
ConcDeviceID == <<68>>
ConcPackets ==
  { Pkt(MsgID0100, p, ConcDeviceID, pl, <<>>, 0) : p \in Phones, pl \in Plates } \cup
  { Pkt(MsgID0102, p, <<>>, <<>>, AuthCodeTable[<<ConcDeviceID, pl, p>>], 0) :
      p \in Phones, pl \in Plates } \cup
  { Pkt(MsgID0102, p, <<>>, <<>>, <<48>>, 0) : p \in Phones } \cup
  { Pkt(id, p, <<>>, <<>>, <<>>, 0) : id \in {MsgID0002, MsgID0003}, p \in Phones } \cup
  { Pkt(MsgID0200, p, <<>>, <<>>, <<>>, sign) : p \in Phones, sign \in StatusSigns }

SetStore(st) ==
  /\ cacheByPhone' = st.byPhone
  /\ cacheByPlate' = st.byPlate
  /\ keepalive' = st.timer
  /\ gisCache' = st.rings

StoreUnchanged == UNCHANGED <<cacheByPhone, cacheByPlate, keepalive, gisCache>>

\* The task of connection s moves to pc with its locals changed.
Goto(s, pc, device, err, out) ==
  /\ tasks' = [tasks EXCEPT ![s] = [pc |-> pc, n |-> tasks[s].n, pkt |-> tasks[s].pkt,
                                    err |-> err, device |-> device, out |-> out]]
  /\ UNCHANGED <<last, hists, codec>>

\* The handler returns err to Process, which wraps it.
ReturnErr(s, err) ==
  Goto(s, "done", "nil", Wrap(err, "Fail to process data"), tasks[s].out)

At(s, id, pc) == tasks[s].pc = pc /\ tasks[s].pkt.MsgID = id

\* Process takes a packet: genData, Decode and GenOutgoing, up to the handler's call.
Begin(s) ==
  \E pkt \in ConcPackets :
    /\ tasks[s].pc = "idle"
    /\ tasks[s].n < MaxFrames
    /\ tasks' = [tasks EXCEPT ![s] =
                   [pc |-> "start", n |-> tasks[s].n + 1, pkt |-> pkt, err |-> NoErr,
                    device |-> "nil", out |-> GenOutgoing(initProcessOption[pkt.MsgID].genData)]]
    /\ StoreUnchanged
    /\ UNCHANGED <<last, hists, codec>>

\* cache.GetDeviceByPhone of processMsg0002, processMsg0003, processMsg0102 and
\* handleMsg0200, with what the handler does on its own up to its next call.
GetDevice(s) ==
  /\ tasks[s].pc = "start"
  /\ tasks[s].pkt.MsgID \in {MsgID0002, MsgID0003, MsgID0102, MsgID0200}
  /\ StoreUnchanged
  /\ \E r \in {GetDeviceByPhone(Store, tasks[s].pkt.PhoneNumber)} :
       IF Cause(r.err) = "ErrDeviceNotFound"
       THEN ReturnErr(s, Wrap(r.err, "Fail to find device cache"))
       ELSE CASE tasks[s].pkt.MsgID = MsgID0002 ->
                   Goto(s, "put", r.device, NoErr, tasks[s].out)
              [] tasks[s].pkt.MsgID = MsgID0003 ->
                   Goto(s, "cancel", r.device, NoErr, tasks[s].out)
              [] tasks[s].pkt.MsgID = MsgID0102 ->
                   IF tasks[s].pkt.AuthCode # genAuthCode(r.device)
                   THEN Goto(s, "cancel", r.device, NoErr,
                             [tasks[s].out EXCEPT !.Result = "ResultFail"])
                   ELSE Goto(s, "put", AuthPassed(r.device), NoErr, tasks[s].out)
              [] tasks[s].pkt.MsgID = MsgID0200 ->
                   IF GisDecode(tasks[s].pkt.StatusSign).ACCStatus = 0
                   THEN Goto(s, "put", ACCOff(r.device), NoErr, tasks[s].out)
                   ELSE Goto(s, "ring", r.device, NoErr, tasks[s].out)

\* cache.HasPlate of processMsg0100.
CheckPlate(s) ==
  /\ At(s, MsgID0100, "start")
  /\ StoreUnchanged
  /\ IF PlateRegistered(Store, tasks[s].pkt)
     THEN Goto(s, "done", "nil", NoErr,
               [tasks[s].out EXCEPT !.Result = "ResCarAlreadyRegister"])
     ELSE Goto(s, "hasPhone", "nil", NoErr, tasks[s].out)

\* cache.HasPhone of processMsg0100, then the new device and its auth code.
CheckPhone(s) ==
  /\ At(s, MsgID0100, "hasPhone")
  /\ StoreUnchanged
  /\ IF PhoneRegistered(Store, tasks[s].pkt)
     THEN Goto(s, "done", "nil", NoErr,
               [tasks[s].out EXCEPT !.Result = "ResDeviceAlreadyRegister"])
     ELSE \E device \in {NewDevice(tasks[s].pkt, s)} :
            Goto(s, "put", device, NoErr,
                 [tasks[s].out EXCEPT !.AuthCode = genAuthCode(device)])

\* cache.CacheDevice(device) of any handler.
PutDevice(s) ==
  /\ tasks[s].pc = "put"
  /\ SetStore(CacheDevice(Store, tasks[s].device))
  /\ CASE tasks[s].pkt.MsgID = MsgID0100 ->
            Goto(s, "timer", tasks[s].device, NoErr, tasks[s].out)
       [] tasks[s].pkt.MsgID = MsgID0200 ->
            Goto(s, "ring", tasks[s].device, NoErr, tasks[s].out)
       [] OTHER -> Goto(s, "done", "nil", NoErr, tasks[s].out)

\* timer.Register(device.PhoneNumber) of processMsg0100.
RegisterTimer(s) ==
  /\ At(s, MsgID0100, "timer")
  /\ SetStore(TimerRegister(Store, tasks[s].device.PhoneNumber))
  /\ Goto(s, "done", "nil", NoErr, tasks[s].out)

\* timer.Cancel(device.PhoneNumber) of processMsg0003 and processMsg0102.
CancelTimer(s) ==
  /\ tasks[s].pc = "cancel"
  /\ SetStore(TimerCancel(Store, tasks[s].device.PhoneNumber))
  /\ Goto(s, "del", tasks[s].device, NoErr, tasks[s].out)

\* cache.DelDeviceByPhone(device.PhoneNumber) of processMsg0003 and processMsg0102.
DeleteDevice(s) ==
  /\ tasks[s].pc = "del"
  /\ SetStore(DelDeviceByPhone(Store, tasks[s].device.PhoneNumber))
  /\ Goto(s, "done", "nil", NoErr, tasks[s].out)

\* GetGisRingByPhone(device.ID) and rb.Write(gis) of handleMsg0200.
WriteRing(s) ==
  /\ At(s, MsgID0200, "ring")
  /\ SetStore(RingWrite(Store, GisRingKey(tasks[s].device),
                        GisDecode(tasks[s].pkt.StatusSign)))
  /\ Goto(s, "done", "nil", NoErr, tasks[s].out)

\* Process has returned; the connection sends the reply and reads its next frame.
Finish(s) ==
  /\ tasks[s].pc = "done"
  /\ tasks' = [tasks EXCEPT ![s] = [IdleTask EXCEPT !.n = tasks[s].n]]
  /\ StoreUnchanged
  /\ UNCHANGED <<last, hists, codec>>

NextConc ==
  \/ \E s \in Sessions : Begin(s)
  \/ \E s \in Sessions : GetDevice(s)
  \/ \E s \in Sessions : CheckPlate(s)
  \/ \E s \in Sessions : CheckPhone(s)
  \/ \E s \in Sessions : PutDevice(s)
  \/ \E s \in Sessions : RegisterTimer(s)
  \/ \E s \in Sessions : CancelTimer(s)
  \/ \E s \in Sessions : DeleteDevice(s)
  \/ \E s \in Sessions : WriteRing(s)
  \/ \E s \in Sessions : Finish(s)
  \/ Elapse
  \/ Timeout

SpecConc == Init /\ [][NextConc]_vars

\* ------------------------------------------------------ Msg0100 round trips
\* A Msg0100 is encoded and the frame decoded again, or a frame is decoded and the
\* message encoded again; the services take no part.

InitCodec ==
  /\ cacheByPhone = EmptyMap
  /\ cacheByPlate = EmptyMap
  /\ keepalive = EmptyMap
  /\ gisCache = EmptyMap
  /\ last = Idle
  /\ authSinceReg = [p \in Phones |-> FALSE]
  /\ statusSetBy = [p \in Phones |-> 0]
  /\ issuedCode = [p \in Phones |-> <<>>]
  /\ tasks = [s \in Sessions |-> IdleTask]
  /\ \E in \in CodecInputs :
       \/ codec = CodecState("m", <<>>, Msg0100Of(in[1], in[2]), NoFrame,
                             Msg0100Of(in[1], in[2]), NoFrame, "nil", NoWidths)
       \/ codec = CodecState("frame", <<>>, NoMsg0100, CanonicalFrame(in[1], in[2]),
                             NoMsg0100, CanonicalFrame(in[1], in[2]), "nil", NoWidths)

CodecOnly ==
  UNCHANGED <<cacheByPhone, cacheByPlate, keepalive, gisCache, last, hists, tasks>>

\* m.Encode()
Encode0100 ==
  /\ codec.have = "m"
  /\ Len(codec.steps) < 2
  /\ \E r \in {Msg0100Encode(codec.m)} :
       codec' = [codec EXCEPT !.have = IF r.err = "nil" THEN "frame" ELSE "none",
                              !.steps = Append(@, "Encode"),
                              !.frame = r.frame,
                              !.err = r.err]
  /\ CodecOnly

\* The frame's header is parsed, then m.Decode(packet).
Decode0100 ==
  /\ codec.have = "frame"
  /\ Len(codec.steps) < 2
  /\ \E r \in {Msg0100Decode(ReadHeader(codec.frame))} :
       codec' = [codec EXCEPT !.have = IF r.err = "nil" THEN "m" ELSE "none",
                              !.steps = Append(@, "Decode"),
                              !.m = r.m,
                              !.err = r.err,
                              !.manuLen = r.manuLen,
                              !.modeLen = r.modeLen,
                              !.idLen = r.idLen]
  /\ CodecOnly

NextCodec ==
  \/ Encode0100
  \/ Decode0100

SpecCodec == InitCodec /\ [][NextCodec]_vars

\* No handler is in the middle of executing.
Quiescent == \A s \in Sessions : tasks[s].pc \in {"idle", "done"}

\* ----------------------------------------------------------------- claims

\* The step is a Process call of a packet with this msg id.
Processes(id) == last'.op = "Process" /\ last'.pkt.MsgID = id
\* Process has just returned from a packet with this msg id.
Processed(id) == last.op = "Process" /\ last.pkt.MsgID = id
ServicesUnchanged == UNCHANGED <<cacheByPhone, cacheByPlate, keepalive, gisCache>>
Registered(p) == p \in DOMAIN cacheByPhone

\* C1: for a packet whose msg id has no descriptor in the dispatch table, Process
\* returns ErrMsgIDNotSupportted as an error value, with no ProcessData (no reply),
\* and leaves the registry, the plate index, the keep-alive timer and the GIS rings
\* as they were.
C1_UnsupportedReturnsError ==
  [][ (last'.op = "Process" /\ ~HasAction(last'.pkt.MsgID)) =>
        /\ last'.err = <<"ErrMsgIDNotSupportted">>
        /\ ~last'.hasData
        /\ last'.out = NoOut
        /\ ServicesUnchanged ]_vars

\* C2: the phone index and the plate index are bijective on the live entries: every
\* plate entry points at a registered phone whose device has that plate, and every
\* registered device is stored under its own phone and is the one its plate points
\* at (so no two devices share a plate).
C2_IndexesBijective ==
  /\ \A pl \in DOMAIN cacheByPlate :
       /\ Registered(cacheByPlate[pl])
       /\ cacheByPhone[cacheByPlate[pl]].PlateNumber = pl
  /\ \A p \in DOMAIN cacheByPhone :
       /\ cacheByPhone[p].PhoneNumber = p
       /\ cacheByPhone[p].PlateNumber \in DOMAIN cacheByPlate
       /\ cacheByPlate[cacheByPhone[p].PlateNumber] = p

\* Two devices are registered, one of them after a logout freed its plate.
C2_Witness ==
  /\ Cardinality(DOMAIN cacheByPhone) = 2
  /\ Cardinality(DOMAIN cacheByPlate) = 2
  /\ Processed(MsgID0100)
  /\ last.out.Result = "ResSuccess"

\* C3: an online device has had a successful 0x0102 processed after its most recent
\* successful 0x0100, and the only step that makes a device online is a successful
\* 0x0102 for its phone.
C3_OnlineOnlyByAuth ==
  /\ [](\A p \in DOMAIN cacheByPhone :
          cacheByPhone[p].Status = "online" => authSinceReg[p])
  /\ [][ \A p \in Phones :
           ( /\ p \in DOMAIN cacheByPhone'
             /\ cacheByPhone'[p].Status = "online"
             /\ ~(Registered(p) /\ cacheByPhone[p].Status = "online") )
           => ( /\ Processes(MsgID0102)
                /\ last'.pkt.PhoneNumber = p
                /\ last'.pkt.AuthCode = genAuthCode(cacheByPhone[p])
                /\ Succeeded(last') ) ]_vars

\* A device is online after its 0x0102 succeeded.
C3_Witness ==
  /\ Processed(MsgID0102)
  /\ Succeeded(last)
  /\ Registered(last.pkt.PhoneNumber)
  /\ cacheByPhone[last.pkt.PhoneNumber].Status = "online"

\* C4 as the spec states it: when a device is online, the last packet processed for
\* its phone was a successful 0x0102 with the matching auth code. Stated where the
\* call that has just returned is for the device's phone.
C4_LastWasAuth ==
  \A p \in DOMAIN cacheByPhone :
    ( /\ cacheByPhone[p].Status = "online"
      /\ last.op = "Process"
      /\ last.pkt.PhoneNumber = p )
    => ( /\ last.pkt.MsgID = MsgID0102
         /\ last.pkt.AuthCode = genAuthCode(cacheByPhone[p])
         /\ Succeeded(last) )

\* C4 as amended: when a device is online, the last packet processed for its phone
\* that set a device status (a successful 0x0100, a successful 0x0102, a 0x0200 with
\* ACC off) was a successful 0x0102.
C4_LastStatusSetByAuth ==
  \A p \in DOMAIN cacheByPhone :
    cacheByPhone[p].Status = "online" => statusSetBy[p] = MsgID0102

\* An online device whose last packet was a heartbeat.
C4_Witness ==
  /\ Processed(MsgID0002)
  /\ Registered(last.pkt.PhoneNumber)
  /\ cacheByPhone[last.pkt.PhoneNumber].Status = "online"
  /\ statusSetBy[last.pkt.PhoneNumber] = MsgID0102

\* C5: a 0x0100 whose plate and phone are both absent succeeds: no error, reply
\* result success with the auth code of (device id, plate, phone); the registry has
\* under the phone a device that is offline, has keep-alive 60 s and the session's
\* id, transport and connection; the plate points at the phone; the timer has an
\* entry for the phone.
C5_RegisterSucceeds ==
  [][ ( /\ Processes(MsgID0100)
        /\ last'.pkt.PlateNumber \notin DOMAIN cacheByPlate
        /\ last'.pkt.PhoneNumber \notin DOMAIN cacheByPhone )
      => LET in == last'.pkt
             ctx == last'.ctx
         IN  /\ last'.err = NoErr
             /\ last'.hasData
             /\ last'.out.Type = "Msg8100"
             /\ last'.out.Result = "ResSuccess"
             /\ last'.out.AuthCode = AuthCodeOf(in.DeviceID, in.PlateNumber, in.PhoneNumber)
             /\ cacheByPhone' =
                  Put(cacheByPhone, in.PhoneNumber,
                      [ID |-> in.DeviceID, PlateNumber |-> in.PlateNumber,
                       PhoneNumber |-> in.PhoneNumber, SessionID |-> ctx.ID,
                       TransProto |-> ctx.TransProto, Conn |-> ctx.Conn,
                       Keepalive |-> 60, Status |-> "offline"])
             /\ cacheByPlate' = Put(cacheByPlate, in.PlateNumber, in.PhoneNumber)
             /\ in.PhoneNumber \in DOMAIN keepalive'
             /\ keepalive'[in.PhoneNumber] = "armed" ]_vars

\* A register has just succeeded on the second session, beside another device.
C5_Witness ==
  /\ Processed(MsgID0100)
  /\ Succeeded(last)
  /\ last.ctx.ID = "s2"
  /\ Registered(last.pkt.PhoneNumber)
  /\ cacheByPhone[last.pkt.PhoneNumber].Conn = "c2"
  /\ Cardinality(DOMAIN cacheByPhone) = 2

\* C6: a 0x0100 whose plate is in the plate index is answered ResCarAlreadyRegister
\* (whether or not the phone is registered too); otherwise one whose phone is in
\* the registry is answered ResDeviceAlreadyRegister; in both cases there is no
\* error, no auth code, and the registry, plate index, timer and rings are unchanged.
C6_RegisterRejected ==
  [][ ( /\ Processes(MsgID0100)
        /\ \/ last'.pkt.PlateNumber \in DOMAIN cacheByPlate
           \/ last'.pkt.PhoneNumber \in DOMAIN cacheByPhone )
      => /\ last'.out.Result =
              IF last'.pkt.PlateNumber \in DOMAIN cacheByPlate
              THEN "ResCarAlreadyRegister"
              ELSE "ResDeviceAlreadyRegister"
         /\ last'.err = NoErr
         /\ last'.hasData
         /\ last'.out.AuthCode = <<>>
         /\ ServicesUnchanged ]_vars

\* A register was rejected for its plate although its phone is registered too, with
\* a different plate.
C6_Witness ==
  /\ Processed(MsgID0100)
  /\ last.out.Result = "ResCarAlreadyRegister"
  /\ Registered(last.pkt.PhoneNumber)
  /\ cacheByPhone[last.pkt.PhoneNumber].PlateNumber # last.pkt.PlateNumber
  /\ last.pkt.PlateNumber \in DOMAIN cacheByPlate

\* C7: a 0x0102 for a registered phone whose auth code differs from the code of the
\* stored device is answered with result failure and no error, and removes the
\* phone's timer entry, the device and its plate entry, whatever the device's status.
C7_AuthFailureRemoves ==
  [][ \A status \in {"offline", "online", "sleeping"} :
        ( /\ Processes(MsgID0102)
          /\ Registered(last'.pkt.PhoneNumber)
          /\ cacheByPhone[last'.pkt.PhoneNumber].Status = status
          /\ last'.pkt.AuthCode # genAuthCode(cacheByPhone[last'.pkt.PhoneNumber]) )
        => LET p == last'.pkt.PhoneNumber
           IN  /\ last'.out.Type = "Msg8001"
               /\ last'.out.Result = "ResultFail"
               /\ last'.err = NoErr
               /\ last'.hasData
               /\ keepalive' = Del(keepalive, p)
               /\ p \notin DOMAIN keepalive'
               /\ cacheByPhone' = Del(cacheByPhone, p)
               /\ cacheByPlate' = Del(cacheByPlate, cacheByPhone[p].PlateNumber)
               /\ UNCHANGED gisCache ]_vars

\* A 0x0102 has just failed for a phone whose device had reported a location, so was
\* registered and not offline-only, and the device is gone.
C7_Witness ==
  /\ Processed(MsgID0102)
  /\ last.out.Result = "ResultFail"
  /\ last.err = NoErr
  /\ ~Registered(last.pkt.PhoneNumber)
  /\ last.pkt.AuthCode # <<48>>
  /\ DOMAIN gisCache # {}

\* C8: a 0x0102 that carries exactly the auth code the 0x8100 reply of the phone's
\* successful register returned, the device not having been removed since, is
\* answered with result success and leaves the device online, whatever heartbeats
\* and location reports were processed in between; the record keeps the identity
\* (device id, plate, phone) the code was computed from.
C8_IssuedCodeAuthenticates ==
  [][ ( /\ Processes(MsgID0102)
        /\ issuedCode[last'.pkt.PhoneNumber] # <<>>
        /\ last'.pkt.AuthCode = issuedCode[last'.pkt.PhoneNumber] )
      => LET p == last'.pkt.PhoneNumber
         IN  /\ last'.err = NoErr
             /\ last'.out.Type = "Msg8001"
             /\ last'.out.Result = "ResultSuccess"
             /\ p \in DOMAIN cacheByPhone'
             /\ cacheByPhone' = [cacheByPhone EXCEPT ![p].Status = "online"]
             /\ issuedCode[p] =
                  AuthCodeOf(cacheByPhone[p].ID, cacheByPhone[p].PlateNumber, p) ]_vars

\* The issued code has just been accepted from a device whose id has a GIS ring, so
\* a location report was processed before this authentication.
C8_Witness ==
  /\ Processed(MsgID0102)
  /\ Succeeded(last)
  /\ last.pkt.AuthCode = issuedCode[last.pkt.PhoneNumber]
  /\ Registered(last.pkt.PhoneNumber)
  /\ cacheByPhone[last.pkt.PhoneNumber].Status = "online"
  /\ GisRingKey(cacheByPhone[last.pkt.PhoneNumber]) \in DOMAIN gisCache

\* C10: a 0x0002, 0x0003, 0x0102 or 0x0200 whose phone is not in the registry makes
\* the handler return the wrapped ErrDeviceNotFound, which Process returns wrapped
\* again, with the reply left at its generated value; the registry, plate index,
\* timer and rings are unchanged.
C10_AbsentDeviceIsAnError ==
  [][ \A id \in {MsgID0002, MsgID0003, MsgID0102, MsgID0200} :
        ( /\ Processes(id)
          /\ last'.pkt.PhoneNumber \notin DOMAIN cacheByPhone )
        => /\ last'.err = <<"Fail to process data", "Fail to find device cache",
                            "ErrDeviceNotFound">>
           /\ last'.out = GenOutgoing("Msg8001")
           /\ ServicesUnchanged ]_vars

\* A location report for an unregistered phone has just returned the error, while
\* another device is registered.
C10_Witness ==
  /\ Processed(MsgID0200)
  /\ Cause(last.err) = "ErrDeviceNotFound"
  /\ ~Registered(last.pkt.PhoneNumber)
  /\ DOMAIN cacheByPhone # {}

\* C9: whenever no handler is in the middle of executing, the keep-alive timer has
\* an entry for a phone exactly when the registry holds a device with that phone,
\* for every interleaving of handlers of different connections and of timeouts.
C9_TimerIffRegistered ==
  Quiescent => DOMAIN keepalive = DOMAIN cacheByPhone

\* The services as the step leaves them.
StoreAfter == [byPhone |-> cacheByPhone', byPlate |-> cacheByPlate',
               timer |-> keepalive', rings |-> gisCache']

\* C11: a 0x0003 for a registered phone cancels the phone's timer entry and deletes
\* the device with its plate entry, returns no error with the 0x8001 reply at result
\* success (so nothing tells the caller to close the connection); in the state it
\* leaves, a 0x0100 with the same phone and plate succeeds and creates the device,
\* and a 0x0002, 0x0102 or 0x0200 for the phone returns ErrDeviceNotFound.
C11_LogoutFrees ==
  [][ ( /\ Processes(MsgID0003)
        /\ Registered(last'.pkt.PhoneNumber) )
      => LET p == last'.pkt.PhoneNumber
             plate == cacheByPhone[p].PlateNumber
         IN  /\ last'.err = NoErr
             /\ last'.hasData
             /\ last'.out.Type = "Msg8001"
             /\ last'.out.Result = "ResultSuccess"
             /\ keepalive' = Del(keepalive, p)
             /\ cacheByPhone' = Del(cacheByPhone, p)
             /\ cacheByPlate' = Del(cacheByPlate, plate)
             /\ p \notin DOMAIN cacheByPhone'
             /\ plate \notin DOMAIN cacheByPlate'
             /\ UNCHANGED gisCache
             /\ \A ctx \in Sessions, id \in DeviceIDs :
                  LET r == Process(StoreAfter, ctx, Pkt(MsgID0100, p, id, plate, <<>>, 0))
                  IN  /\ r.err = NoErr
                      /\ r.out.Result = "ResSuccess"
                      /\ p \in DOMAIN r.st.byPhone
                      /\ r.st.byPhone[p].PlateNumber = plate
             /\ \A ctx \in Sessions :
                  \A pkt \in { Pkt(MsgID0002, p, <<>>, <<>>, <<>>, 0) } \cup
                             { Pkt(MsgID0102, p, <<>>, <<>>, code, 0) : code \in AuthCodesFor[p] } \cup
                             { Pkt(MsgID0200, p, <<>>, <<>>, <<>>, sign) : sign \in StatusSigns } :
                    LET r == Process(StoreAfter, ctx, pkt)
                    IN  /\ Cause(r.err) = "ErrDeviceNotFound"
                        /\ r.st = StoreAfter ]_vars

\* A logout has just removed a device and its timer entry while another device stays
\* registered.
C11_Witness ==
  /\ Processed(MsgID0003)
  /\ Succeeded(last)
  /\ ~Registered(last.pkt.PhoneNumber)
  /\ last.pkt.PhoneNumber \notin DOMAIN keepalive
  /\ Cardinality(DOMAIN cacheByPhone) = 1
  /\ Cardinality(DOMAIN cacheByPlate) = 1

\* C12: a 0x0002 for a registered phone leaves the registry (every record, so the
\* phone's status, device id, plate, session and connection, and the key set) and
\* the plate index as they were, leaves the phone's timer entry armed anew whether
\* or not its deadline had elapsed, leaves the other timer entries and every GIS
\* ring alone, and returns no error with the 0x8001 reply at result success.
C12_HeartbeatRefreshes ==
  [][ ( /\ Processes(MsgID0002)
        /\ Registered(last'.pkt.PhoneNumber) )
      => LET p == last'.pkt.PhoneNumber
         IN  /\ last'.err = NoErr
             /\ last'.hasData
             /\ last'.out.Type = "Msg8001"
             /\ last'.out.Result = "ResultSuccess"
             /\ cacheByPhone' = cacheByPhone
             /\ cacheByPlate' = cacheByPlate
             /\ p \in DOMAIN keepalive
             /\ keepalive' = [keepalive EXCEPT ![p] = "armed"]
             /\ UNCHANGED gisCache ]_vars

\* A heartbeat has just been answered for a sleeping device that has a GIS ring,
\* beside another registered device whose deadline has elapsed.
C12_Witness ==
  /\ Processed(MsgID0002)
  /\ Succeeded(last)
  /\ Registered(last.pkt.PhoneNumber)
  /\ cacheByPhone[last.pkt.PhoneNumber].Status = "sleeping"
  /\ GisRingKey(cacheByPhone[last.pkt.PhoneNumber]) \in DOMAIN gisCache
  /\ keepalive[last.pkt.PhoneNumber] = "armed"
  /\ \E q \in DOMAIN keepalive : keepalive[q] = "elapsed"

ProcessedFor(p) == last.op = "Process" /\ last.pkt.PhoneNumber = p

C15_RegisterReplacesConnection ==
  [][ ( /\ Processes(MsgID0100)
        /\ Registered(last'.pkt.PhoneNumber)
        /\ cacheByPhone[last'.pkt.PhoneNumber].SessionID # last'.ctx.ID )
      => LET p == last'.pkt.PhoneNumber
         IN  /\ p \in DOMAIN cacheByPhone'
             /\ cacheByPhone'[p].Conn = last'.ctx.Conn
             /\ cacheByPhone'[p].SessionID = last'.ctx.ID ]_vars

\* C15 as amended: a phone has one record, whose session id, transport and
\* connection handle are those of the session its register succeeded on, and they
\* stay so for as long as the device is registered; a 0x0100 for a registered phone
\* on another session is rejected (ResCarAlreadyRegister or ResDeviceAlreadyRegister)
\* and leaves the registry as it was.
C15_ConnectionKeptUntilRemoved ==
  [][ /\ \A p \in DOMAIN cacheByPhone \cap DOMAIN cacheByPhone' :
           /\ cacheByPhone'[p].Conn = cacheByPhone[p].Conn
           /\ cacheByPhone'[p].SessionID = cacheByPhone[p].SessionID
           /\ cacheByPhone'[p].TransProto = cacheByPhone[p].TransProto
      /\ \A p \in DOMAIN cacheByPhone' \ DOMAIN cacheByPhone :
           /\ Processes(MsgID0100)
           /\ last'.pkt.PhoneNumber = p
           /\ cacheByPhone'[p].Conn = last'.ctx.Conn
           /\ cacheByPhone'[p].SessionID = last'.ctx.ID
           /\ cacheByPhone'[p].TransProto = last'.ctx.TransProto
      /\ ( /\ Processes(MsgID0100)
           /\ Registered(last'.pkt.PhoneNumber)
           /\ cacheByPhone[last'.pkt.PhoneNumber].SessionID # last'.ctx.ID )
         => /\ last'.out.Result \in {"ResCarAlreadyRegister", "ResDeviceAlreadyRegister"}
            /\ last'.err = NoErr
            /\ cacheByPhone' = cacheByPhone ]_vars

\* A register on the second session has just been rejected for its phone, whose
\* record is that of the first session; the plate it named is free.
C15_Witness ==
  /\ Processed(MsgID0100)
  /\ last.out.Result = "ResDeviceAlreadyRegister"
  /\ last.ctx.ID = "s2"
  /\ Registered(last.pkt.PhoneNumber)
  /\ cacheByPhone[last.pkt.PhoneNumber].SessionID = "s1"
  /\ cacheByPhone[last.pkt.PhoneNumber].Conn = "c1"
  /\ last.pkt.PlateNumber \notin DOMAIN cacheByPlate

\* C16: Decode of a frame's packet reads (manufacturer, model, device id) with
\* widths 11/30/30 when the header's version is 2019; for another header, with
\* 5/20/7 when more than 5+20+7+1 = 33 bytes of body remain after province and
\* city, the header staying 2013, and else with 5/8/7, the header's version being
\* rewritten to 2011; so the decoded message's header says 2011 exactly when the
\* model width was 8.
C16_DecodeWidthsByVersion ==
  (codec.steps = <<"Decode">> /\ codec.err = "nil")
  => LET header == ReadHeader(codec.origFrame).Header
         widths == [manuLen |-> codec.manuLen, modeLen |-> codec.modeLen,
                    idLen |-> codec.idLen]
     IN  /\ IF header.VersionDesc = "Version2019"
            THEN widths = [manuLen |-> 11, modeLen |-> 30, idLen |-> 30]
            ELSE IF header.BodyLength - 4 > 33
            THEN /\ widths = [manuLen |-> 5, modeLen |-> 20, idLen |-> 7]
                 /\ codec.m.Header.VersionDesc = "Version2013"
            ELSE /\ widths = [manuLen |-> 5, modeLen |-> 8, idLen |-> 7]
                 /\ codec.m.Header.VersionDesc = "Version2011"
         /\ (codec.m.Header.VersionDesc = "Version2011") <=> (codec.modeLen = 8)

\* C17: a well-formed message of any of the three revisions that is encoded and
\* decoded again is the message it was (header, words, strings, colour, plate), and
\* a canonical frame that is decoded and encoded again is the frame it was; neither
\* call fails.
C17_RoundTrip ==
  /\ (codec.steps # <<>> /\ codec.origM.Header.VersionDesc \in CodecVersions)
       => codec.err = "nil"
  /\ (codec.steps # <<>> /\ codec.origM = NoMsg0100) => codec.err = "nil"
  /\ codec.steps = <<"Encode", "Decode">> => codec.m = codec.origM
  /\ codec.steps = <<"Decode", "Encode">> => codec.frame = codec.origFrame

\* The step is a Process call of a packet with this msg id for phone p.
ProcessesFor(id, p) == Processes(id) /\ last' # last /\ last'.pkt.PhoneNumber = p

\* The parts of the lifecycle that C18 as stated and as amended share: a device
\* appears only by a successful 0x0100 of its phone, with status offline; it becomes
\* online only by a successful 0x0102 of its phone; it disappears only by a 0x0003
\* of its phone, a failed 0x0102 of its phone, or the phone's keep-alive timeout.
LifecycleSteps(p) ==
  /\ (~Registered(p) /\ p \in DOMAIN cacheByPhone')
       => /\ ProcessesFor(MsgID0100, p)
          /\ Succeeded(last')
          /\ cacheByPhone'[p].Status = "offline"
  /\ ( /\ p \in DOMAIN cacheByPhone'
       /\ cacheByPhone'[p].Status = "online"
       /\ ~(Registered(p) /\ cacheByPhone[p].Status = "online") )
       => /\ ProcessesFor(MsgID0102, p)
          /\ Succeeded(last')
          /\ Registered(p)
  /\ (Registered(p) /\ p \notin DOMAIN cacheByPhone')
       => \/ ProcessesFor(MsgID0003, p) /\ Succeeded(last')
          \/ ProcessesFor(MsgID0102, p) /\ last'.out.Result = "ResultFail"
          \/ TimeoutOf(p)

\* The device of p has status sleeping after the step and had not before it.
BecomesSleeping(p) ==
  /\ p \in DOMAIN cacheByPhone'
  /\ cacheByPhone'[p].Status = "sleeping"
  /\ ~(Registered(p) /\ cacheByPhone[p].Status = "sleeping")

\* C18 as the spec states it: the lifecycle steps above; a device becomes sleeping
\* only by a 0x0200 with ACC off processed while it is online; and a device that
\* has registered and not authenticated since is offline.
C18_Lifecycle ==
  [][ \A p \in Phones :
        /\ LifecycleSteps(p)
        /\ BecomesSleeping(p)
             => /\ ProcessesFor(MsgID0200, p)
                /\ last'.pkt.StatusSign % 2 = 0
                /\ Registered(p)
                /\ cacheByPhone[p].Status = "online"
        /\ (p \in DOMAIN cacheByPhone' /\ ~authSinceReg'[p])
             => cacheByPhone'[p].Status = "offline" ]_vars

\* C18 as amended: the lifecycle steps above; a device becomes sleeping only by a
\* 0x0200 with ACC off, and such a report puts it to sleep whatever its status
\* (offline, online or sleeping); a device that has registered and not
\* authenticated since is not online: it is offline, or sleeping after such a report.
C18_LifecycleSleepFromAnyStatus ==
  [][ \A p \in Phones :
        /\ LifecycleSteps(p)
        /\ BecomesSleeping(p)
             => /\ ProcessesFor(MsgID0200, p)
                /\ last'.pkt.StatusSign % 2 = 0
                /\ Registered(p)
        /\ (ProcessesFor(MsgID0200, p) /\ last'.pkt.StatusSign % 2 = 0 /\ Registered(p))
             => /\ p \in DOMAIN cacheByPhone'
                /\ cacheByPhone'[p].Status = "sleeping"
        /\ (p \in DOMAIN cacheByPhone' /\ ~authSinceReg'[p])
             => cacheByPhone'[p].Status \in {"offline", "sleeping"} ]_vars

\* A location report with ACC off has just put to sleep a device that registered
\* and has not authenticated.
C18_Witness ==
  /\ Processed(MsgID0200)
  /\ Succeeded(last)
  /\ last.pkt.StatusSign % 2 = 0
  /\ Registered(last.pkt.PhoneNumber)
  /\ ~authSinceReg[last.pkt.PhoneNumber]
  /\ cacheByPhone[last.pkt.PhoneNumber].Status = "sleeping"

\* The ring of the device registered under q in the services st: the ring a report
\* of q is written to.
RingOfDevice(st, q) == RingOf(st, GisRingKey(st.byPhone[q]))

\* C19: a 0x0200 processed for a registered phone p leaves the ring of every other
\* registered device as it was, also when the other device has another phone and
\* plate and the same device id; the fix goes to the ring of p's device.
C19_RingsPerDevice ==
  [][ \A p \in Phones :
        (ProcessesFor(MsgID0200, p) /\ Registered(p))
        => /\ p \in DOMAIN cacheByPhone'
           /\ RingOfDevice(StoreAfter, p) # <<>>
           /\ \A q \in DOMAIN cacheByPhone \ {p} :
                /\ q \in DOMAIN cacheByPhone'
                /\ RingOfDevice(StoreAfter, q) = RingOfDevice(Store, q) ]_vars

\* C20: with 0x0100 handlers of different connections interleaved, a register
\* succeeds and puts its device only while neither its plate nor its phone is
\* registered (a register that finds either is answered ResCarAlreadyRegister or
\* ResDeviceAlreadyRegister), so no registered device is overwritten and the
\* registry never holds two devices with the same plate.
C20_RegisterOnce ==
  /\ [](\A p, q \in DOMAIN cacheByPhone :
          p # q => cacheByPhone[p].PlateNumber # cacheByPhone[q].PlateNumber)
  /\ [][ \A s \in Sessions :
           ( /\ At(s, MsgID0100, "put")
             /\ tasks'[s].pc = "timer"
             /\ tasks[s].out.Result = "ResSuccess" )
           => /\ tasks[s].pkt.PlateNumber \notin DOMAIN cacheByPlate
              /\ tasks[s].pkt.PhoneNumber \notin DOMAIN cacheByPhone ]_vars

====
